---- MODULE Spec2Model ----
(***************************************************************************)
(* A model of source/statistics.c: the statistics sample records, the      *)
(* handler chain (aws_statistics_handler_new_chain) and the TLS timeout    *)
(* monitor (aws_crt_statistics_handler_new_tls_monitor).                   *)
(*                                                                         *)
(* The specifications share the variables:                                 *)
(*   SpecRecords  the sample records and their init/reset operations       *)
(*   SpecChain    construction, processing and destruction of a chain      *)
(*   SpecMonitor  a TLS monitor fed arbitrary intervals and record lists   *)
(*   SpecOngoing  a TLS monitor fed by a scheduler that keeps end times    *)
(*                non-decreasing while the handshake stays Ongoing         *)
(*   SpecInOrder  a TLS monitor fed in order, with any record lists        *)
(*   SpecLifetime a TLS monitor whose owner also asks for its cadence, and *)
(*                an observer that remembers what the deliveries showed    *)
(*   SpecScan     one call of the monitor's process on any monitor state,  *)
(*                any interval and any record list                         *)
(***************************************************************************)
EXTENDS Integers, Sequences, FiniteSets, TLC

(***************************************************************************)
(* Bounds of the model.                                                    *)
(***************************************************************************)
\* largest byte counter the instrumentation reaches
MaxBytes == 2
\* interval end times are drawn from 0..MaxTime and the example's end times
MaxTime == 2
\* timeouts are drawn from 0..MaxTimeout and the example's timeout
MaxTimeout == 2
\* longest record list handed to the monitor
MaxStats == 2
\* largest number of member handlers of a chain
MaxHandlers == 3
\* longest run of deliveries recorded by the scheduler of SpecOngoing
MaxCalls == 3

NULL == "NULL"

(***************************************************************************)
(* Unsigned integers keep their width.  A uint64_t is four 16-bit limbs,   *)
(* most significant first; a uint32_t is two.                              *)
(***************************************************************************)
Base == 2^16

U64(n) == <<0, 0, n \div Base, n % Base>>

U32(n) == <<n \div Base, n % Base>>

\* the implicit conversion of a uint32_t operand to uint64_t
U64FromU32(t) == <<0, 0, t[1], t[2]>>

UINT64_MAX == <<Base - 1, Base - 1, Base - 1, Base - 1>>

\* a < b on uint64_t
U64Less(a, b) ==
    \E i \in 1..4 : a[i] < b[i] /\ \A j \in 1..(i - 1) : a[j] = b[j]

\* a - b on uint64_t: wraps around modulo 2^64
U64Sub(a, b) ==
    LET d4 == a[4] - b[4]
        c4 == IF d4 < 0 THEN 1 ELSE 0
        d3 == a[3] - b[3] - c4
        c3 == IF d3 < 0 THEN 1 ELSE 0
        d2 == a[2] - b[2] - c3
        c2 == IF d2 < 0 THEN 1 ELSE 0
        d1 == a[1] - b[1] - c2
    IN  <<(d1 + Base) % Base, (d2 + Base) % Base,
          (d3 + Base) % Base, (d4 + Base) % Base>>

(***************************************************************************)
(* Enumerations of the headers.                                            *)
(***************************************************************************)
AWSCRT_STAT_CAT_SOCKET == "AWSCRT_STAT_CAT_SOCKET"
AWSCRT_STAT_CAT_TLS == "AWSCRT_STAT_CAT_TLS"

AWS_MTLS_STATUS_NONE == "AWS_MTLS_STATUS_NONE"
AWS_MTLS_STATUS_ONGOING == "AWS_MTLS_STATUS_ONGOING"
AWS_MTLS_STATUS_SUCCESS == "AWS_MTLS_STATUS_SUCCESS"
AWS_MTLS_STATUS_FAILURE == "AWS_MTLS_STATUS_FAILURE"

TlsStatuses ==
    {AWS_MTLS_STATUS_NONE, AWS_MTLS_STATUS_ONGOING,
     AWS_MTLS_STATUS_SUCCESS, AWS_MTLS_STATUS_FAILURE}

AWS_IO_CHANNEL_TLS_TIMEOUT == "AWS_IO_CHANNEL_TLS_TIMEOUT"

VARIABLES
    \* ---- sample records
    socket_stats,       \* struct aws_crt_statistics_socket
    tls_stats,          \* struct aws_crt_statistics_tls
    socket_op,          \* the operation applied last to socket_stats
    socket_before,      \* socket_stats as it was before that operation
    tls_op,             \* the operation applied last to tls_stats
    tls_before,         \* tls_stats as it was before that operation
    \* ---- TLS monitor
    monitor,            \* the monitor's handler: "none", "null", "live", "released"
    tls_timeout_ms,     \* impl->tls_timeout_ms (uint32_t)
    tls_start_time_ms,  \* impl->tls_start_time_ms (uint64_t)
    call,               \* what the last call of process was given and did
    first_seen,         \* end time of the first interval with a non-NONE TLS record
    trace,              \* the deliveries of the scheduler of SpecOngoing
    listed,             \* the interval and record list handed to process in SpecScan
    concluded,          \* a delivery of SpecLifetime captured SUCCESS or FAILURE
    fired,              \* least end time at which a delivery of SpecLifetime shut down
    before,             \* concluded and fired as they were before the last delivery
    reported,           \* what the last call of get_report_interval_ms returned
    \* ---- handler chain
    doubles,            \* the member handlers given to the constructor (test doubles)
    chain,              \* the chain: "none", "null", "live", "released", "crashed"
    chain_handler,      \* struct aws_crt_statistics_handler of the chain
    chain_impl,         \* struct aws_crt_statistics_handler_chain_impl
    heap,               \* the chain's storage and the calls that released it
    chain_new,          \* how the constructor ran and what it returned
    chain_events,       \* the calls s_chain_destroy made, in order
    chain_call,         \* the arguments of the last call of the chain's process
    delivery,           \* the member calls that call of process made, in order
    crash,              \* how undefined behaviour ended the process, if it did
    aborted             \* the process was ended by a fatal check or a crash

rec_vars == <<socket_stats, tls_stats, socket_op, socket_before, tls_op, tls_before>>

obs_vars == <<listed, concluded, fired, before, reported>>

mon_vars == <<monitor, tls_timeout_ms, tls_start_time_ms, call, first_seen, trace,
              listed, concluded, fired, before, reported>>

chain_vars == <<doubles, chain, chain_handler, chain_impl, heap, chain_new,
                chain_events, chain_call, delivery, crash>>

vars == <<socket_stats, tls_stats, socket_op, socket_before, tls_op, tls_before,
          monitor, tls_timeout_ms, tls_start_time_ms, call, first_seen, trace,
          listed, concluded, fired, before, reported,
          doubles, chain, chain_handler, chain_impl, heap, chain_new,
          chain_events, chain_call, delivery, crash, aborted>>

(***************************************************************************)
(* Sample records (statistics.c lines 21-51).                              *)
(***************************************************************************)
\* aws_crt_statistics_socket_init: AWS_ZERO_STRUCT, then the category
SocketInitOp(stats) ==
    [category |-> AWSCRT_STAT_CAT_SOCKET, bytes_read |-> 0, bytes_written |-> 0]

\* a reset that forgets one of the two counters
SocketResetReadOnly(stats) ==
    [stats EXCEPT !.bytes_read = 0]

\* aws_crt_statistics_socket_reset
SocketResetOp(stats) ==
    [stats EXCEPT !.bytes_read = 0, !.bytes_written = 0]

\* aws_crt_statistics_tls_init: AWS_ZERO_STRUCT, the category, status NONE
TlsInitOp(stats) ==
    [category |-> AWSCRT_STAT_CAT_TLS, handshake_status |-> AWS_MTLS_STATUS_NONE]

\* aws_crt_statistics_tls_reset: (void)stats
TlsResetOp(stats) ==
    stats

SocketInit ==
    /\ socket_stats' = SocketInitOp(socket_stats)
    /\ socket_op' = "init"
    /\ socket_before' = socket_stats
    /\ UNCHANGED <<tls_stats, tls_op, tls_before, mon_vars, chain_vars, aborted>>

SocketReset ==
    /\ socket_stats' = SocketResetOp(socket_stats)
    /\ socket_op' = "reset"
    /\ socket_before' = socket_stats
    /\ UNCHANGED <<tls_stats, tls_op, tls_before, mon_vars, chain_vars, aborted>>

TlsInit ==
    /\ tls_stats' = TlsInitOp(tls_stats)
    /\ tls_op' = "init"
    /\ tls_before' = tls_stats
    /\ UNCHANGED <<socket_stats, socket_op, socket_before, mon_vars, chain_vars, aborted>>

TlsReset ==
    /\ tls_stats' = TlsResetOp(tls_stats)
    /\ tls_op' = "reset"
    /\ tls_before' = tls_stats
    /\ UNCHANGED <<socket_stats, socket_op, socket_before, mon_vars, chain_vars, aborted>>

\* the instrumentation layer counts bytes during an interval
SocketRecordIo ==
    \E r \in 0..1, w \in 0..1 :
        /\ r + w > 0
        /\ socket_stats.bytes_read + r <= MaxBytes
        /\ socket_stats.bytes_written + w <= MaxBytes
        /\ socket_stats' = [socket_stats EXCEPT !.bytes_read = @ + r,
                                                !.bytes_written = @ + w]
        /\ socket_op' = "io"
        /\ socket_before' = socket_stats
        /\ UNCHANGED <<tls_stats, tls_op, tls_before, mon_vars, chain_vars, aborted>>

\* the instrumentation layer moves the handshake on
TlsSetStatus ==
    \E s \in TlsStatuses :
        /\ s # tls_stats.handshake_status
        /\ tls_stats' = [tls_stats EXCEPT !.handshake_status = s]
        /\ tls_op' = "status"
        /\ tls_before' = tls_stats
        /\ UNCHANGED <<socket_stats, socket_op, socket_before, mon_vars, chain_vars, aborted>>

RecInit ==
    /\ socket_stats = SocketInitOp(NULL)
    /\ tls_stats = TlsInitOp(NULL)
    /\ socket_op = "init"
    /\ socket_before = SocketInitOp(NULL)
    /\ tls_op = "init"
    /\ tls_before = TlsInitOp(NULL)

(***************************************************************************)
(* TLS monitor (statistics.c lines 163-266).                               *)
(***************************************************************************)
\* the end times of the example: 100, 600, 1200
ExampleEndTimes == {U64(100), U64(600), U64(1200)}

\* the timeout of the example
ExampleTimeouts == {U32(1000)}

EndTimes == {U64(n) : n \in 0..MaxTime} \cup ExampleEndTimes

Timeouts == {U32(n) : n \in 0..MaxTimeout} \cup ExampleTimeouts

\* the records a list may hold: a socket record, a TLS record of any status
StatRecords ==
    {[category |-> AWSCRT_STAT_CAT_SOCKET, bytes_read |-> 1, bytes_written |-> 0]}
    \cup {[category |-> AWSCRT_STAT_CAT_TLS, handshake_status |-> s] : s \in TlsStatuses}

SeqsUpTo(S, n) == UNION {[1..k -> S] : k \in 0..n}

StatsLists == SeqsUpTo(StatRecords, MaxStats)

\* line 189 without the test of the start time
StampWheneverShown(tls_status, start_time_ms) ==
    tls_status # AWS_MTLS_STATUS_NONE

\* line 189: the start time is stamped when a status shows and none is recorded
StampNeeded(tls_status, start_time_ms) ==
    tls_status # AWS_MTLS_STATUS_NONE /\ start_time_ms = U64(0)

\* lines 184-197 with the status of the first TLS record kept
ScanRecordFirstWins(stats_base, end_time_ms, st) ==
    IF stats_base.category = AWSCRT_STAT_CAT_TLS
    THEN LET tls_status == IF st.tls_status = AWS_MTLS_STATUS_NONE
                           THEN stats_base.handshake_status
                           ELSE st.tls_status IN
         [tls_status |-> tls_status,
          tls_start_time_ms |->
              IF StampNeeded(tls_status, st.tls_start_time_ms)
              THEN end_time_ms
              ELSE st.tls_start_time_ms]
    ELSE st

\* lines 184-197 with a default case that forgets the status
ScanRecordResetByOthers(stats_base, end_time_ms, st) ==
    IF stats_base.category = AWSCRT_STAT_CAT_TLS
    THEN LET tls_status == stats_base.handshake_status IN
         [tls_status |-> tls_status,
          tls_start_time_ms |->
              IF StampNeeded(tls_status, st.tls_start_time_ms)
              THEN end_time_ms
              ELSE st.tls_start_time_ms]
    ELSE [st EXCEPT !.tls_status = AWS_MTLS_STATUS_NONE]

\* lines 184-197: the switch on the category of one record;
\* st holds the locals and fields it writes: tls_status, tls_start_time_ms
ScanRecord(stats_base, end_time_ms, st) ==
    IF stats_base.category = AWSCRT_STAT_CAT_TLS
    THEN LET tls_status == stats_base.handshake_status IN
         [tls_status |-> tls_status,
          tls_start_time_ms |->
              IF StampNeeded(tls_status, st.tls_start_time_ms)
              THEN end_time_ms
              ELSE st.tls_start_time_ms]
    ELSE st

\* lines 177-198: the loop over stats_list from record i on
RECURSIVE ScanStats(_, _, _, _)
ScanStats(stats_list, i, end_time_ms, st) ==
    IF i > Len(stats_list) THEN st
    ELSE ScanStats(stats_list, i + 1, end_time_ms,
                   ScanRecord(stats_list[i], end_time_ms, st))

\* line 200 without the test of the timeout
SkipOnStatusOnly(timeout_ms, tls_status) ==
    tls_status # AWS_MTLS_STATUS_ONGOING

\* line 200 without the test of the status
SkipOnTimeoutOnly(timeout_ms, tls_status) ==
    timeout_ms = U32(0)

\* line 200: no timeout check when disabled or when the status is not ONGOING
TimeoutCheckSkipped(timeout_ms, tls_status) ==
    timeout_ms = U32(0) \/ tls_status # AWS_MTLS_STATUS_ONGOING

\* a build in which the fatal check is compiled out
EndTimeNotChecked(end_time_ms, start_time_ms) ==
    TRUE

\* line 204 with a strict comparison
EndTimeStrictlyLater(end_time_ms, start_time_ms) ==
    U64Less(start_time_ms, end_time_ms)

\* line 204: the condition of AWS_FATAL_ASSERT
EndTimeOrdered(end_time_ms, start_time_ms) ==
    ~U64Less(end_time_ms, start_time_ms)

\* line 206 with the operands of the subtraction exchanged
ElapsedSubtractedBackwards(end_time_ms, start_time_ms, timeout_ms) ==
    U64Less(U64Sub(start_time_ms, end_time_ms), U64FromU32(timeout_ms))

\* line 206 with <= in the place of <
ElapsedNotAboveTimeout(end_time_ms, start_time_ms, timeout_ms) ==
    ~U64Less(U64FromU32(timeout_ms), U64Sub(end_time_ms, start_time_ms))

\* line 206: the elapsed time is below the timeout
ElapsedBelowTimeout(end_time_ms, start_time_ms, timeout_ms) ==
    U64Less(U64Sub(end_time_ms, start_time_ms), U64FromU32(timeout_ms))

\* a monitor that restarts its clock when it shuts the channel down
TlsMonitorProcessRearmed(timeout_ms, start_time_ms, end_time_ms, stats_list) ==
    LET st == ScanStats(stats_list, 1, end_time_ms,
                  [tls_status |-> AWS_MTLS_STATUS_NONE,
                   tls_start_time_ms |-> start_time_ms])
        outcome ==
            IF TimeoutCheckSkipped(timeout_ms, st.tls_status) THEN "return"
            ELSE IF ~EndTimeOrdered(end_time_ms, st.tls_start_time_ms) THEN "abort"
            ELSE IF ElapsedBelowTimeout(end_time_ms, st.tls_start_time_ms, timeout_ms)
                 THEN "return"
            ELSE "shutdown"
    IN  [tls_start_time_ms |-> IF outcome = "shutdown" THEN end_time_ms
                               ELSE st.tls_start_time_ms,
         tls_status |-> st.tls_status,
         outcome |-> outcome,
         error_code |-> IF outcome = "shutdown" THEN AWS_IO_CHANNEL_TLS_TIMEOUT
                        ELSE NULL]

\* s_tls_monitor_process_statistics as a function of the impl and its arguments:
\* the start time it leaves, the status it captured, and how the call ended
TlsMonitorProcess(timeout_ms, start_time_ms, end_time_ms, stats_list) ==
    LET st == ScanStats(stats_list, 1, end_time_ms,
                  [tls_status |-> AWS_MTLS_STATUS_NONE,
                   tls_start_time_ms |-> start_time_ms])
        outcome ==
            IF TimeoutCheckSkipped(timeout_ms, st.tls_status) THEN "return"
            ELSE IF ~EndTimeOrdered(end_time_ms, st.tls_start_time_ms) THEN "abort"
            ELSE IF ElapsedBelowTimeout(end_time_ms, st.tls_start_time_ms, timeout_ms)
                 THEN "return"
            ELSE "shutdown"
    IN  [tls_start_time_ms |-> st.tls_start_time_ms,
         tls_status |-> st.tls_status,
         outcome |-> outcome,
         error_code |-> IF outcome = "shutdown" THEN AWS_IO_CHANNEL_TLS_TIMEOUT
                        ELSE NULL]

\* some TLS record of the list has a status other than NONE
ShowsHandshake(stats_list) ==
    \E i \in 1..Len(stats_list) :
        /\ stats_list[i].category = AWSCRT_STAT_CAT_TLS
        /\ stats_list[i].handshake_status # AWS_MTLS_STATUS_NONE

NoCall ==
    [end_time_ms |-> U64(0), tls_status |-> AWS_MTLS_STATUS_NONE,
     shows_handshake |-> FALSE, start_before |-> U64(0),
     outcome |-> "none", error_code |-> NULL]

MonInit ==
    /\ monitor = "none"
    /\ tls_timeout_ms = U32(0)
    /\ tls_start_time_ms = U64(0)
    /\ call = NoCall
    /\ first_seen = <<>>
    /\ trace = <<>>
    /\ listed = <<>>
    /\ concluded = FALSE
    /\ fired = <<>>
    /\ before = [concluded |-> FALSE, fired |-> <<>>]
    /\ reported = <<>>

\* aws_crt_statistics_handler_new_tls_monitor
NewTlsMonitor ==
    \E timeout_ms \in Timeouts, acquired \in BOOLEAN :
        /\ monitor = "none"
        /\ ~aborted
        /\ IF ~acquired
           THEN /\ monitor' = "null"
                /\ UNCHANGED <<tls_timeout_ms, tls_start_time_ms>>
           ELSE /\ monitor' = "live"
                /\ tls_timeout_ms' = timeout_ms
                /\ tls_start_time_ms' = U64(0)
        /\ UNCHANGED <<call, first_seen, trace, obs_vars, aborted, rec_vars,
                       chain_vars>>

\* one call of the monitor's process_statistics through its vtable
MonitorProcess(end_time_ms, stats_list) ==
    LET r == TlsMonitorProcess(tls_timeout_ms, tls_start_time_ms, end_time_ms, stats_list) IN
    /\ monitor = "live"
    /\ ~aborted
    /\ tls_start_time_ms' = r.tls_start_time_ms
    /\ call' = [end_time_ms |-> end_time_ms, tls_status |-> r.tls_status,
                shows_handshake |-> ShowsHandshake(stats_list),
                start_before |-> tls_start_time_ms,
                outcome |-> r.outcome, error_code |-> r.error_code]
    /\ first_seen' = IF first_seen = <<>> /\ ShowsHandshake(stats_list)
                     THEN <<end_time_ms>> ELSE first_seen
    /\ aborted' = (r.outcome = "abort")
    /\ UNCHANGED <<monitor, tls_timeout_ms, rec_vars, chain_vars>>

\* the scheduler delivers any interval and any record list
Deliver ==
    \E end_time_ms \in EndTimes, stats_list \in StatsLists :
        /\ MonitorProcess(end_time_ms, stats_list)
        /\ UNCHANGED <<trace, obs_vars>>

\* the record lists of an interval in which the handshake is in progress:
\* at least one TLS record, and every TLS record ONGOING
OngoingLists ==
    {l \in StatsLists :
        /\ \E i \in 1..Len(l) : l[i].category = AWSCRT_STAT_CAT_TLS
        /\ \A i \in 1..Len(l) : l[i].category = AWSCRT_STAT_CAT_TLS
                                  => l[i].handshake_status = AWS_MTLS_STATUS_ONGOING}

\* the scheduler closes intervals in order (end times never decrease) while
\* the handshake stays ONGOING, and keeps a record of what each delivery did
DeliverOngoing ==
    \E end_time_ms \in EndTimes, stats_list \in OngoingLists :
        /\ Len(trace) < MaxCalls
        /\ trace # <<>> => ~U64Less(end_time_ms, trace[Len(trace)].end_time_ms)
        /\ MonitorProcess(end_time_ms, stats_list)
        /\ trace' = Append(trace, [end_time_ms |-> end_time_ms,
                                   start_after |-> tls_start_time_ms',
                                   outcome |-> call'.outcome,
                                   error_code |-> call'.error_code])
        /\ UNCHANGED obs_vars

\* the scheduler closes intervals in order, with any record list
DeliverInOrder ==
    \E end_time_ms \in EndTimes, stats_list \in StatsLists :
        /\ call.outcome # "none" => ~U64Less(end_time_ms, call.end_time_ms)
        /\ MonitorProcess(end_time_ms, stats_list)
        /\ UNCHANGED <<trace, obs_vars>>

\* the record lists of SpecLifetime: an interval carries one record or none
\* (what several records in one interval do is examined under SpecScan)
WatchedLists == SeqsUpTo(StatRecords, 1)

\* the scheduler delivers any interval and any record list, and an observer
\* remembers whether a delivery captured a final status and when one fired
DeliverWatched ==
    \E end_time_ms \in EndTimes, stats_list \in WatchedLists :
        /\ MonitorProcess(end_time_ms, stats_list)
        /\ before' = [concluded |-> concluded, fired |-> fired]
        /\ concluded' = (concluded \/ call'.tls_status \in
                            {AWS_MTLS_STATUS_SUCCESS, AWS_MTLS_STATUS_FAILURE})
        /\ fired' = IF /\ call'.outcome = "shutdown"
                       /\ (fired = <<>> \/ U64Less(end_time_ms, fired[1]))
                    THEN <<end_time_ms>>
                    ELSE fired
        /\ reported' = <<>>
        /\ UNCHANGED <<trace, listed>>

\* a monitor whose cadence follows its timeout
ReportsTimeoutAsInterval(timeout_ms) ==
    U64FromU32(timeout_ms)

\* s_tls_monitor_get_report_interval_ms: the handler is not looked at
TlsMonitorGetReportIntervalMs(timeout_ms) ==
    U64(1000)

\* one call of the monitor's get_report_interval_ms through its vtable
AskReportInterval ==
    /\ monitor = "live"
    /\ ~aborted
    /\ reported' = <<TlsMonitorGetReportIntervalMs(tls_timeout_ms)>>
    /\ UNCHANGED <<monitor, tls_timeout_ms, tls_start_time_ms, call, first_seen,
                   trace, listed, concluded, fired, before, aborted, rec_vars,
                   chain_vars>>

\* the record lists of SpecScan
ScanLists == SeqsUpTo(StatRecords, MaxStats + 1)

\* a live monitor in any state its fields can be in, and the arguments of
\* the one call of process that SpecScan makes
ScanInit ==
    /\ monitor = "live"
    /\ tls_timeout_ms \in Timeouts
    /\ tls_start_time_ms \in {U64(0)} \cup EndTimes
    /\ call = NoCall
    /\ first_seen = IF tls_start_time_ms = U64(0) THEN <<>>
                    ELSE <<tls_start_time_ms>>
    /\ trace = <<>>
    /\ listed \in {<<[end_time_ms |-> end_time_ms, stats_list |-> stats_list]>> :
                      end_time_ms \in EndTimes, stats_list \in ScanLists}
    /\ concluded = FALSE
    /\ fired = <<>>
    /\ before = [concluded |-> FALSE, fired |-> <<>>]
    /\ reported = <<>>

\* the one call of s_tls_monitor_process_statistics of SpecScan
ProcessListed ==
    /\ listed # <<>>
    /\ call.outcome = "none"
    /\ MonitorProcess(listed[1].end_time_ms, listed[1].stats_list)
    /\ UNCHANGED <<trace, obs_vars>>

\* s_tls_monitor_destroy
TlsMonitorDestroy ==
    /\ monitor = "live"
    /\ ~aborted
    /\ monitor' = "released"
    /\ UNCHANGED <<tls_timeout_ms, tls_start_time_ms, call, first_seen, trace,
                   obs_vars, aborted, rec_vars, chain_vars>>

(***************************************************************************)
(* Handler chain (statistics.c lines 53-159).  A member handler is a test  *)
(* double that counts the calls of its destroy; a handler pointer is the   *)
(* member's place in the array given to the constructor.                   *)
(***************************************************************************)
\* the cadences a member may report
Cadences == {U64(1), U64(1000), U64(Base), UINT64_MAX}

\* AWS_ZERO_STRUCT(*handler)
ZeroHandler == [vtable |-> NULL, allocator |-> NULL, impl |-> NULL]

\* AWS_ZERO_STRUCT(*impl)
ZeroImpl == [handlers |-> <<>>, report_interval_ms |-> U64(0)]

NoHeap == [handler |-> "none", list |-> "none", releases |-> 0, list_clean_ups |-> 0]

\* what a call of aws_mem_release with a NULL allocator may do: the library's
\* fatal precondition check ends the process, or the NULL pointer is dereferenced
UBOutcomes == {"fatal_check", "null_dereference"}

\* line 141 with the comparison turned round
HigherInterval(report_interval_ms, min_report_interval_ms) ==
    U64Less(min_report_interval_ms, report_interval_ms)

\* line 141: report_interval_ms < min_report_interval_ms
LowerInterval(report_interval_ms, min_report_interval_ms) ==
    U64Less(report_interval_ms, min_report_interval_ms)

\* lines 137-144: the loop from handlers[i] on; acc holds the list and the minimum
RECURSIVE PushHandlers(_, _, _, _)
PushHandlers(handlers, i, dbl, acc) ==
    IF i > Len(handlers) THEN acc
    ELSE LET report_interval_ms == dbl[handlers[i]].report_interval_ms IN
         PushHandlers(handlers, i + 1, dbl,
             [handlers |-> Append(acc.handlers, handlers[i]),
              min_report_interval_ms |->
                  IF LowerInterval(report_interval_ms, acc.min_report_interval_ms)
                  THEN report_interval_ms
                  ELSE acc.min_report_interval_ms])

\* lines 86-93: the loop from slot i on; every sub-handler is destroyed
RECURSIVE DestroyFrom(_, _, _)
DestroyFrom(handlers, i, acc) ==
    IF i > Len(handlers) THEN acc
    ELSE LET sub_handler == handlers[i] IN
         DestroyFrom(handlers, i + 1,
             [doubles |-> [acc.doubles EXCEPT ![sub_handler].destroy_calls = @ + 1],
              events |-> Append(acc.events, [op |-> "destroy", handler |-> sub_handler])])

\* a loop that starts one slot too late
DestroyLoopFromSecond(handlers, dbl) ==
    DestroyFrom(handlers, 2, [doubles |-> dbl, events |-> <<>>])

\* lines 85-93
DestroyLoop(handlers, dbl) ==
    DestroyFrom(handlers, 1, [doubles |-> dbl, events |-> <<>>])

\* s_chain_destroy(handler): the doubles, the heap and the calls it leaves;
\* ptr is the pointer given, handler and impl the structs it leads to, and
\* ub is what the build does if aws_mem_release is given a NULL allocator
ChainDestroy(ptr, handler, impl, dbl, hp, ub) ==
    IF ptr = NULL
    THEN [doubles |-> dbl, heap |-> hp, events |-> <<>>, crash |-> "none"]
    ELSE LET has_impl == handler.impl # NULL
             loop == IF has_impl THEN DestroyLoop(impl.handlers, dbl)
                     ELSE [doubles |-> dbl, events |-> <<>>]
             ev == IF has_impl
                   THEN Append(loop.events, [op |-> "aws_array_list_clean_up", handler |-> 0])
                   ELSE loop.events
             hp1 == IF has_impl
                    THEN [hp EXCEPT !.list = "released", !.list_clean_ups = @ + 1]
                    ELSE hp
             rel == [op |-> "aws_mem_release", handler |-> 0]
         IN  IF handler.allocator = NULL
             THEN [doubles |-> loop.doubles, heap |-> hp1,
                   events |-> Append(ev, rel), crash |-> ub]
             ELSE [doubles |-> loop.doubles,
                   heap |-> [hp1 EXCEPT !.handler = "released", !.releases = @ + 1],
                   events |-> Append(ev, rel), crash |-> "none"]

\* lines 67-74: the loop from slot i on; every member is called with the
\* interval, the record list and the context the chain was called with
RECURSIVE ProcessFrom(_, _, _, _)
ProcessFrom(handlers, i, args, acc) ==
    IF i > Len(handlers) THEN acc
    ELSE LET handler == handlers[i] IN
         ProcessFrom(handlers, i + 1, args,
             Append(acc, [handler |-> handler, interval |-> args.interval,
                          stats_list |-> args.stats_list, context |-> args.context]))

\* the loop run over the list turned round
ProcessLoopBackwards(handlers, args) ==
    ProcessFrom([i \in 1..Len(handlers) |-> handlers[Len(handlers) + 1 - i]],
                1, args, <<>>)

\* lines 66-74: the member calls of one call of s_chain_process_statistics
ProcessLoop(handlers, args) ==
    ProcessFrom(handlers, 1, args, <<>>)

\* s_chain_get_report_interval_ms
ChainGetReportIntervalMs(impl) ==
    impl.report_interval_ms

ChainInit ==
    /\ doubles = <<>>
    /\ chain = "none"
    /\ chain_handler = ZeroHandler
    /\ chain_impl = ZeroImpl
    /\ heap = NoHeap
    /\ chain_new = [acquired |-> FALSE, list_init |-> FALSE, result |-> "none"]
    /\ chain_events = <<>>
    /\ chain_call = <<>>
    /\ delivery = <<>>
    /\ crash = "none"

\* aws_statistics_handler_new_chain(allocator, handlers, handler_count)
NewChain ==
    \E cadences \in SeqsUpTo(Cadences, MaxHandlers),
       acquired \in BOOLEAN, list_init \in BOOLEAN, ub \in UBOutcomes :
        LET dbl == [i \in 1..Len(cadences) |->
                       [report_interval_ms |-> cadences[i], destroy_calls |-> 0]]
            handlers == [i \in 1..Len(cadences) |-> i]
            hp == [NoHeap EXCEPT !.handler = "acquired"]
            unwound == ChainDestroy("handler", ZeroHandler, ZeroImpl, dbl, hp, ub)
            pushed == PushHandlers(handlers, 1, dbl,
                          [handlers |-> <<>>, min_report_interval_ms |-> UINT64_MAX])
        IN
        /\ chain = "none"
        /\ ~aborted
        /\ IF ~acquired
           THEN \* lines 119-127
                /\ doubles' = dbl
                /\ chain' = "null"
                /\ chain_new' = [acquired |-> FALSE, list_init |-> FALSE, result |-> NULL]
                /\ UNCHANGED <<chain_handler, chain_impl, heap, chain_events, crash,
                               aborted>>
           ELSE IF ~list_init
           THEN \* lines 129-134 and 154-158
                /\ doubles' = unwound.doubles
                /\ chain_handler' = ZeroHandler
                /\ chain_impl' = ZeroImpl
                /\ heap' = unwound.heap
                /\ chain_events' = unwound.events
                /\ crash' = unwound.crash
                /\ aborted' = (unwound.crash # "none")
                /\ chain' = IF unwound.crash # "none" THEN "crashed" ELSE "null"
                /\ chain_new' = [acquired |-> TRUE, list_init |-> FALSE,
                                 result |-> IF unwound.crash # "none"
                                            THEN "none" ELSE NULL]
           ELSE \* lines 129-152
                /\ doubles' = dbl
                /\ chain_handler' = [vtable |-> "s_statistics_handler_chain_vtable",
                                     allocator |-> "allocator", impl |-> "impl"]
                /\ chain_impl' = [handlers |-> pushed.handlers,
                                  report_interval_ms |-> pushed.min_report_interval_ms]
                /\ heap' = [hp EXCEPT !.list = "acquired"]
                /\ chain' = "live"
                /\ chain_new' = [acquired |-> TRUE, list_init |-> TRUE,
                                 result |-> "handler"]
                /\ UNCHANGED <<chain_events, crash, aborted>>
        /\ UNCHANGED <<chain_call, delivery, rec_vars, mon_vars>>

\* the arguments the scheduler hands to the chain
ChainArgs ==
    [interval : {[start_time_ms |-> U64(0), end_time_ms |-> U64(1)],
                 [start_time_ms |-> U64(1), end_time_ms |-> U64(2)]},
     stats_list : SeqsUpTo(StatRecords, 1),
     context : {"channel_a", "channel_b"}]

\* one call of s_chain_process_statistics through the chain's vtable
ChainProcess ==
    \E args \in ChainArgs :
        /\ chain = "live"
        /\ ~aborted
        /\ chain_call' = <<args>>
        /\ delivery' = ProcessLoop(chain_impl.handlers, args)
        /\ UNCHANGED <<doubles, chain, chain_handler, chain_impl, heap, chain_new,
                       chain_events, crash, aborted, rec_vars, mon_vars>>

\* the owner destroys the chain: s_chain_destroy through the chain's vtable
ChainDestroyCall ==
    \E ub \in UBOutcomes :
        LET d == ChainDestroy("handler", chain_handler, chain_impl, doubles, heap, ub) IN
        /\ chain = "live"
        /\ ~aborted
        /\ doubles' = d.doubles
        /\ heap' = d.heap
        /\ chain_events' = d.events
        /\ crash' = d.crash
        /\ aborted' = (d.crash # "none")
        /\ chain' = IF d.crash # "none" THEN "crashed" ELSE "released"
        /\ UNCHANGED <<chain_handler, chain_impl, chain_new, chain_call, delivery,
                       rec_vars, mon_vars>>

Init ==
    /\ RecInit
    /\ MonInit
    /\ ChainInit
    /\ aborted = FALSE

NextRecords ==
    \/ SocketInit
    \/ SocketReset
    \/ TlsInit
    \/ TlsReset
    \/ SocketRecordIo
    \/ TlsSetStatus

SpecRecords == Init /\ [][NextRecords]_vars

NextMonitor ==
    \/ NewTlsMonitor
    \/ Deliver
    \/ TlsMonitorDestroy

SpecMonitor == Init /\ [][NextMonitor]_vars

NextOngoing ==
    \/ NewTlsMonitor
    \/ DeliverOngoing
    \/ TlsMonitorDestroy

SpecOngoing == Init /\ [][NextOngoing]_vars

NextInOrder ==
    \/ NewTlsMonitor
    \/ DeliverInOrder
    \/ TlsMonitorDestroy

SpecInOrder == Init /\ [][NextInOrder]_vars

NextLifetime ==
    \/ NewTlsMonitor
    \/ DeliverWatched
    \/ AskReportInterval
    \/ TlsMonitorDestroy

SpecLifetime == Init /\ [][NextLifetime]_vars

InitScan ==
    /\ RecInit
    /\ ScanInit
    /\ ChainInit
    /\ aborted = FALSE

NextScan ==
    \/ ProcessListed
    \/ TlsMonitorDestroy

SpecScan == InitScan /\ [][NextScan]_vars

NextChain ==
    \/ NewChain
    \/ ChainProcess
    \/ ChainDestroyCall

SpecChain == Init /\ [][NextChain]_vars

(***************************************************************************)
(* Claims about the sample records.                                        *)
(***************************************************************************)
\* C10: socket reset zeroes bytes_read and bytes_written, keeps the category,
\* and resetting the result again changes nothing; TLS reset changes no
\* field, so handshake_status is what it was before, for every status.
C10_ResetOfRecords ==
    /\ socket_op = "reset" =>
          /\ socket_stats.bytes_read = 0
          /\ socket_stats.bytes_written = 0
          /\ socket_stats.category = socket_before.category
          /\ SocketResetOp(socket_stats) = socket_stats
    /\ tls_op = "reset" =>
          /\ tls_stats = tls_before
          /\ tls_stats.handshake_status = tls_before.handshake_status

\* both resets acted on records the instrumentation had written
C10_Witness ==
    /\ socket_op = "reset"
    /\ socket_before.bytes_read > 0
    /\ socket_before.bytes_written > 0
    /\ tls_op = "reset"
    /\ tls_before.handshake_status = AWS_MTLS_STATUS_ONGOING

(***************************************************************************)
(* Claims about the TLS monitor.                                           *)
(***************************************************************************)
\* the interval of the last call lies at least the timeout after the start
\* time that was recorded when the call began
CallOverdue ==
    /\ call.start_before # U64(0)
    /\ ~U64Less(call.end_time_ms, call.start_before)
    /\ ~U64Less(U64Sub(call.end_time_ms, call.start_before), U64FromU32(tls_timeout_ms))

\* C4: a monitor constructed with tls_timeout_ms = 0 never calls the channel's
\* shutdown, whatever intervals and handshake statuses it is given.
C4_DisabledNeverShutsDown ==
    (monitor # "none" /\ tls_timeout_ms = U32(0)) => call.outcome # "shutdown"

\* a disabled monitor was given an ONGOING handshake long after its start
C4_Witness ==
    /\ monitor = "live"
    /\ tls_timeout_ms = U32(0)
    /\ call.tls_status = AWS_MTLS_STATUS_ONGOING
    /\ call.start_before = U64(1)
    /\ call.end_time_ms = U64(1200)
    /\ call.outcome = "return"

\* C6: in an interval whose captured status is not ONGOING the monitor does not
\* call shutdown, however far the end time lies past the recorded start time.
C6_NoShutdownUnlessOngoing ==
    (call.outcome # "none" /\ call.tls_status # AWS_MTLS_STATUS_ONGOING)
        => call.outcome # "shutdown"

\* the handshake had started, the interval is overdue, the status is SUCCESS
C6_Witness ==
    /\ tls_timeout_ms = U32(2)
    /\ call.tls_status = AWS_MTLS_STATUS_SUCCESS
    /\ call.start_before = U64(1)
    /\ call.end_time_ms = U64(1200)
    /\ CallOverdue
    /\ call.outcome = "return"

\* the last call was given an end time below the start time already recorded
CallOutOfOrder ==
    /\ call.outcome # "none"
    /\ call.start_before # U64(0)
    /\ U64Less(call.end_time_ms, call.start_before)

\* C7 as stated: whenever process is given an interval whose end time is below
\* the recorded start time, the fatal check fires.
C7_OutOfOrderAlwaysFatal ==
    CallOutOfOrder => call.outcome = "abort"

\* C7 as amended: on such an interval the fatal check fires exactly when the
\* timeout is not 0 and the captured status is ONGOING; otherwise the call
\* returns before any elapsed time is computed; shutdown is never triggered.
C7_OutOfOrderFatalWhenChecked ==
    CallOutOfOrder =>
        /\ call.outcome = "abort"
              <=> (tls_timeout_ms # U32(0) /\ call.tls_status = AWS_MTLS_STATUS_ONGOING)
        /\ call.outcome # "abort" => call.outcome = "return"
        /\ aborted <=> call.outcome = "abort"

\* the fatal check fired on an out-of-order interval
C7_Witness ==
    /\ CallOutOfOrder
    /\ call.outcome = "abort"
    /\ aborted

\* C8: the start time is written once: it is the end time of the first interval
\* in which a TLS record with a status other than NONE was seen, and stays so.
C8_StartWrittenOnce ==
    first_seen # <<>> => tls_start_time_ms = first_seen[1]

(***************************************************************************)
(* Claims about the monitor under in-order delivery of an ONGOING          *)
(* handshake (SpecOngoing).                                                *)
(***************************************************************************)
\* the i-th delivery lies less than the timeout after the first one
BelowTimeout(i) ==
    U64Less(U64Sub(trace[i].end_time_ms, trace[1].end_time_ms),
            U64FromU32(tls_timeout_ms))

\* the example: end times 100, 600, 1200 with a timeout of 1000
C5_Example ==
    (/\ tls_timeout_ms = U32(1000)
     /\ Len(trace) = 3
     /\ trace[1].end_time_ms = U64(100)
     /\ trace[2].end_time_ms = U64(600)
     /\ trace[3].end_time_ms = U64(1200))
    => /\ \A i \in 1..3 : trace[i].start_after = U64(100)
       /\ trace[1].outcome = "return"
       /\ trace[2].outcome = "return"
       /\ trace[3].outcome = "shutdown"
       /\ trace[3].error_code = AWS_IO_CHANNEL_TLS_TIMEOUT

\* C5: with a timeout T > 0, in-order end times and status ONGOING in every
\* interval, the start time is the first interval's end time, no interval less
\* than T after it triggers shutdown, and the first interval at least T after
\* it triggers shutdown with the TLS-timeout error code.
C5_TimeoutFromFirstInterval ==
    /\ tls_timeout_ms # U32(0) =>
          \A i \in 1..Len(trace) :
              /\ trace[i].start_after = trace[1].end_time_ms
              /\ BelowTimeout(i) => trace[i].outcome = "return"
              /\ (~BelowTimeout(i) /\ \A j \in 1..(i - 1) : BelowTimeout(j))
                    => /\ trace[i].outcome = "shutdown"
                       /\ trace[i].error_code = AWS_IO_CHANNEL_TLS_TIMEOUT
    /\ C5_Example

\* the example ran to its end
C5_ExampleReached ==
    /\ tls_timeout_ms = U32(1000)
    /\ Len(trace) = 3
    /\ trace[1].end_time_ms = U64(100)
    /\ trace[2].end_time_ms = U64(600)
    /\ trace[3].end_time_ms = U64(1200)
    /\ trace[3].outcome = "shutdown"

(***************************************************************************)
(* Claims about the handler chain (SpecChain).                             *)
(***************************************************************************)
\* the least cadence among the members, the largest uint64_t if there is none
LeastCadence ==
    LET S == {doubles[i].report_interval_ms : i \in 1..Len(doubles)} IN
    IF S = {} THEN UINT64_MAX
    ELSE CHOOSE m \in S : \A c \in S : ~U64Less(c, m)

\* C1: the cadence the chain reports is the minimum of its members' cadences,
\* and UINT64_MAX for a chain without members.
C1_ChainCadenceIsMinimum ==
    chain = "live" => ChainGetReportIntervalMs(chain_impl) = LeastCadence

\* a chain of three members whose least cadence is the second one's
C1_Witness ==
    /\ chain = "live"
    /\ Len(doubles) = 3
    /\ doubles[1].report_interval_ms = UINT64_MAX
    /\ doubles[2].report_interval_ms = U64(1000)
    /\ doubles[3].report_interval_ms = U64(Base)
    /\ ChainGetReportIntervalMs(chain_impl) = U64(1000)

\* C2: destroying a constructed chain calls destroy on every member exactly
\* once, for every number of members, and then cleans up the list and releases
\* the chain's storage, each exactly once.
C2_DestroyEachMemberOnce ==
    chain = "released" =>
        /\ \A i \in 1..Len(doubles) : doubles[i].destroy_calls = 1
        /\ \A i \in 1..Len(doubles) :
              Cardinality({k \in 1..Len(chain_events) :
                  chain_events[k] = [op |-> "destroy", handler |-> i]}) = 1
        /\ Len(chain_events) = Len(doubles) + 2
        /\ chain_events[Len(chain_events) - 1].op = "aws_array_list_clean_up"
        /\ chain_events[Len(chain_events)].op = "aws_mem_release"
        /\ heap.list_clean_ups = 1
        /\ heap.releases = 1
        /\ heap.handler = "released"

\* a chain of several members was destroyed
C2_Witness ==
    /\ chain = "released"
    /\ Len(doubles) >= 2
    /\ \A i \in 1..Len(doubles) : doubles[i].destroy_calls = 1

\* C3: one call of the chain's process calls every member exactly once, in the
\* order of construction, each with the interval, record list and context the
\* chain was given.
C3_FanOutInOrder ==
    chain_call # <<>> =>
        /\ Len(delivery) = Len(doubles)
        /\ \A i \in 1..Len(delivery) :
              /\ delivery[i].handler = i
              /\ delivery[i].interval = chain_call[1].interval
              /\ delivery[i].stats_list = chain_call[1].stats_list
              /\ delivery[i].context = chain_call[1].context

\* a chain of several members was given a record
C3_Witness ==
    /\ chain_call # <<>>
    /\ Len(doubles) >= 2
    /\ Len(delivery) = Len(doubles)
    /\ chain_call[1].stats_list # <<>>
    /\ chain_call[1].context = "channel_b"

\* C9: when the member list cannot be initialised after the chain's storage
\* was acquired, the constructor returns NULL, the storage is released exactly
\* once, and no member is destroyed more than once.
C9_FailedConstructionUnwinds ==
    (chain_new.acquired /\ ~chain_new.list_init) =>
        /\ chain_new.result = NULL
        /\ ~aborted
        /\ heap.handler = "released"
        /\ heap.releases = 1
        /\ \A i \in 1..Len(doubles) : doubles[i].destroy_calls <= 1

(***************************************************************************)
(* Claims about the cadence of the TLS monitor and about what it keeps     *)
(* from one delivery to the next.                                          *)
(***************************************************************************)
\* C11: get_report_interval_ms of the TLS monitor returns 1000 whatever the
\* timeout is and whenever it is asked, and a call of it changes neither the
\* timeout nor the start time.  Checked under SpecLifetime.
C11_CadenceIsConstant ==
    /\ [](reported # <<>> => reported[1] = U64(1000))
    /\ [][reported = <<>> /\ reported' # <<>>
            => /\ tls_timeout_ms' = tls_timeout_ms
               /\ tls_start_time_ms' = tls_start_time_ms]_vars

\* the cadence was asked of a monitor whose timeout is not 1000, after a
\* delivery in which it shut the channel down
C11_Witness ==
    /\ reported = <<U64(1000)>>
    /\ tls_timeout_ms # U32(1000)
    /\ tls_start_time_ms # U64(0)
    /\ call.outcome = "shutdown"

\* the conditions of lines 200-206 on the last delivery: the timeout is
\* enabled, the status captured is ONGOING, and the time since the start
\* time has reached the timeout
CallTimedOut ==
    /\ tls_timeout_ms # U32(0)
    /\ call.tls_status = AWS_MTLS_STATUS_ONGOING
    /\ ~U64Less(call.end_time_ms, tls_start_time_ms)
    /\ ~U64Less(U64Sub(call.end_time_ms, tls_start_time_ms),
                U64FromU32(tls_timeout_ms))

\* C12 as the specification states it: once a delivery captured SUCCESS or
\* FAILURE, no later delivery shuts the channel down.  Violated under
\* SpecLifetime: the monitor keeps nothing of the status it captured.
C12_InertOnceConcluded ==
    before.concluded => call.outcome # "shutdown"

\* C12 amended: once a delivery captured SUCCESS or FAILURE, a later delivery
\* shuts the channel down exactly when it captures ONGOING again with the
\* timeout enabled and reached; a delivery that captures any other status
\* never does.  Checked under SpecLifetime.
C12_InertUnlessOngoingAgain ==
    before.concluded => (call.outcome = "shutdown" <=> CallTimedOut)

\* after a delivery that captured a final status, one that captured NONE
\* past the timeout returned, and one that captured ONGOING shut down
C12_Witness ==
    /\ before.concluded
    /\ call.outcome = "shutdown"
    /\ call.tls_status = AWS_MTLS_STATUS_ONGOING
    /\ U64Less(U64FromU32(tls_timeout_ms),
               U64Sub(call.end_time_ms, tls_start_time_ms))

\* C13: a delivery shuts the channel down only when the timeout is not 0,
\* the status captured is ONGOING and end_time_ms less the start time is at
\* least the timeout; the error code is AWS_IO_CHANNEL_TLS_TIMEOUT, and no
\* other outcome passes an error code.  Checked under SpecMonitor.
C13_ShutdownOnlyWhenTimedOut ==
    /\ call.outcome = "shutdown"
           => CallTimedOut /\ call.error_code = AWS_IO_CHANNEL_TLS_TIMEOUT
    /\ call.outcome # "shutdown" => call.error_code = NULL

\* a shutdown at the very interval in which the timeout was reached
C13_Witness ==
    /\ call.outcome = "shutdown"
    /\ call.error_code = AWS_IO_CHANNEL_TLS_TIMEOUT
    /\ U64Less(tls_start_time_ms, call.end_time_ms)
    /\ U64Sub(call.end_time_ms, tls_start_time_ms) = U64FromU32(tls_timeout_ms)

\* C14: a shutdown changes nothing in the monitor, so after one every later
\* delivery that captures ONGOING with an end time not below that of the
\* shutdown shuts the channel down again.  Checked under SpecLifetime.
C14_NoFiredState ==
    /\ call.outcome = "shutdown" => tls_start_time_ms = call.start_before
    /\ (/\ before.fired # <<>>
        /\ call.tls_status = AWS_MTLS_STATUS_ONGOING
        /\ ~U64Less(call.end_time_ms, before.fired[1]))
           => call.outcome = "shutdown"

\* a second shutdown, at a later interval than the first
C14_Witness ==
    /\ before.fired # <<>>
    /\ U64Less(before.fired[1], call.end_time_ms)
    /\ call.outcome = "shutdown"
    /\ ~before.concluded

(***************************************************************************)
(* Claims about one call of the monitor's process and the record list it   *)
(* is given, checked under SpecScan.                                       *)
(***************************************************************************)
\* the call of SpecScan has been made
Called == listed # <<>> /\ call.outcome # "none"

\* the places of the TLS records in a list
TlsPlaces(stats_list) ==
    {i \in 1..Len(stats_list) : stats_list[i].category = AWSCRT_STAT_CAT_TLS}

\* the status of the last TLS record of a list, NONE when it has none
LastTlsStatus(stats_list) ==
    IF TlsPlaces(stats_list) = {} THEN AWS_MTLS_STATUS_NONE
    ELSE LET last == CHOOSE i \in TlsPlaces(stats_list) :
                         \A j \in TlsPlaces(stats_list) : j <= i
         IN  stats_list[last].handshake_status

\* a list without its records of other categories
IsTlsRecord(stats_base) == stats_base.category = AWSCRT_STAT_CAT_TLS

TlsOnly(stats_list) == SelectSeq(stats_list, IsTlsRecord)

\* C15: the status the call decides on is that of the last TLS record of
\* the list, wherever the other records sit; with it the call shuts down,
\* returns, or fails the fatal check, and it fails the check only when the
\* interval ended before the start time already recorded, however many TLS
\* records there are.
C15_LastTlsRecordDecides ==
    Called =>
        LET stats_list == listed[1].stats_list
            end_time_ms == listed[1].end_time_ms
            last_status == LastTlsStatus(stats_list)
            checked == /\ tls_timeout_ms # U32(0)
                       /\ last_status = AWS_MTLS_STATUS_ONGOING
        IN  /\ call.tls_status = last_status
            /\ call.outcome \in {"return", "abort", "shutdown"}
            /\ call.outcome = "abort"
                   <=> checked /\ U64Less(end_time_ms, tls_start_time_ms)
            /\ call.outcome = "shutdown"
                   <=> /\ checked
                       /\ ~U64Less(end_time_ms, tls_start_time_ms)
                       /\ ~U64Less(U64Sub(end_time_ms, tls_start_time_ms),
                                    U64FromU32(tls_timeout_ms))
            /\ call.outcome = "abort" => U64Less(end_time_ms, call.start_before)

\* three records, a socket record between a SUCCESS and an ONGOING TLS
\* record, and the call shut the channel down
C15_Witness ==
    /\ Called
    /\ Len(listed[1].stats_list) = 3
    /\ listed[1].stats_list[1].category = AWSCRT_STAT_CAT_TLS
    /\ listed[1].stats_list[1].handshake_status = AWS_MTLS_STATUS_SUCCESS
    /\ listed[1].stats_list[2].category = AWSCRT_STAT_CAT_SOCKET
    /\ listed[1].stats_list[3].category = AWSCRT_STAT_CAT_TLS
    /\ listed[1].stats_list[3].handshake_status = AWS_MTLS_STATUS_ONGOING
    /\ call.outcome = "shutdown"

\* C16 as the specification states it: the start time is stamped exactly
\* when the status of the last TLS record is not NONE and the start time is
\* still 0.  Violated: the stamp is made inside the loop, at every TLS record.
C16_StampedByLastStatus ==
    Called =>
        tls_start_time_ms =
            IF /\ LastTlsStatus(listed[1].stats_list) # AWS_MTLS_STATUS_NONE
               /\ call.start_before = U64(0)
            THEN listed[1].end_time_ms
            ELSE call.start_before

\* C16 amended: the start time is stamped with end_time_ms exactly when some
\* TLS record of the list has a status other than NONE and the start time is
\* still 0; otherwise the call leaves it as it was.
C16_StampedByAnyStatus ==
    Called =>
        tls_start_time_ms =
            IF /\ ShowsHandshake(listed[1].stats_list)
               /\ call.start_before = U64(0)
            THEN listed[1].end_time_ms
            ELSE call.start_before

\* the last TLS record is NONE, an earlier one was not, and the call stamped
C16_Witness ==
    /\ Called
    /\ LastTlsStatus(listed[1].stats_list) = AWS_MTLS_STATUS_NONE
    /\ ShowsHandshake(listed[1].stats_list)
    /\ call.start_before = U64(0)
    /\ tls_start_time_ms = listed[1].end_time_ms
    /\ tls_start_time_ms # U64(0)

\* C17: records of other categories are ignored.  A call whose list has no
\* TLS record leaves the start time as it was and returns; and a call ends
\* with the same start time and the same outcome as a call in the same state
\* on the list without its other records.
C17_OtherRecordsIgnored ==
    Called =>
        LET stats_list == listed[1].stats_list
            alone == TlsMonitorProcess(tls_timeout_ms, call.start_before,
                                       listed[1].end_time_ms, TlsOnly(stats_list))
        IN  /\ TlsPlaces(stats_list) = {}
                => /\ tls_start_time_ms = call.start_before
                   /\ call.outcome = "return"
            /\ tls_start_time_ms = alone.tls_start_time_ms
            /\ call.tls_status = alone.tls_status
            /\ call.outcome = alone.outcome

\* an ONGOING TLS record between two socket records, and the call shut down
C17_Witness ==
    /\ Called
    /\ Len(listed[1].stats_list) = 3
    /\ listed[1].stats_list[1].category = AWSCRT_STAT_CAT_SOCKET
    /\ listed[1].stats_list[2].category = AWSCRT_STAT_CAT_TLS
    /\ listed[1].stats_list[3].category = AWSCRT_STAT_CAT_SOCKET
    /\ call.outcome = "shutdown"

\* a list of socket records only, given past the timeout of a started clock
C17_WitnessNoTls ==
    /\ Called
    /\ Len(listed[1].stats_list) = 2
    /\ TlsPlaces(listed[1].stats_list) = {}
    /\ tls_timeout_ms # U32(0)
    /\ CallOverdue

(***************************************************************************)
(* Claims about deliveries in order.                                       *)
(***************************************************************************)
\* C19: when the end times of successive deliveries never decrease, the
\* fatal check of line 204 never fails, whatever the statuses and the
\* timeout, and no interval ends before the start time, so that the
\* subtraction of line 206 does not wrap.  Checked under SpecInOrder.
C19_InOrderNeverFatal ==
    /\ ~aborted
    /\ call.outcome # "abort"
    /\ call.outcome # "none" => ~U64Less(call.end_time_ms, tls_start_time_ms)

\* a delivery that passed the fatal check at the very interval that started
\* the clock, after an earlier delivery
C19_Witness ==
    /\ call.outcome = "return"
    /\ call.tls_status = AWS_MTLS_STATUS_ONGOING
    /\ tls_timeout_ms # U32(0)
    /\ call.start_before # U64(0)
    /\ call.end_time_ms = tls_start_time_ms

\* C20: with a timeout above 0, the handshake ONGOING in every interval and
\* end times that never decrease, the delivery whose end time has reached
\* the start time plus the timeout shuts the channel down, and a delivery
\* that stamps the start time never does.  Checked under SpecOngoing.
C20_OngoingTimesOut ==
    tls_timeout_ms # U32(0) =>
        \A i \in 1..Len(trace) :
            LET start_before == IF i = 1 THEN U64(0) ELSE trace[i - 1].start_after IN
            /\ ~U64Less(U64Sub(trace[i].end_time_ms, trace[i].start_after),
                        U64FromU32(tls_timeout_ms))
                   => trace[i].outcome = "shutdown"
            /\ start_before = U64(0)
                   => /\ trace[i].start_after = trace[i].end_time_ms
                      /\ trace[i].outcome # "shutdown"

\* the clock started in the first delivery, the second one was early, and
\* the third one, exactly at the timeout, shut the channel down
C20_Witness ==
    /\ Len(trace) = 3
    /\ tls_timeout_ms # U32(0)
    /\ trace[1].start_after # U64(0)
    /\ trace[2].outcome = "return"
    /\ trace[3].outcome = "shutdown"
    /\ U64Sub(trace[3].end_time_ms, trace[3].start_after) = U64FromU32(tls_timeout_ms)

====
